---- MODULE Spec2Model ----
(***************************************************************************)
(* A model of MDTraj/hdf5.py: the HDF5TrajectoryFile object (access mode,  *)
(* open flag, frame cursor, initialization flag) together with the HDF5    *)
(* file it is opened on (the per-frame arrays, the root attributes, the    *)
(* topology record and the constraints table).  One action per method.     *)
(***************************************************************************)
EXTENDS Integers, Sequences, FiniteSets, TLC

VARIABLES
    mode,                  \* self.mode
    is_open,               \* self._open
    frame_index,           \* self._frame_index
    needs_initialization,  \* self._needs_initialization
    nodes,                 \* the frame arrays under '/': name -> number of rows, or Absent
    n_atoms,               \* shape[1] of /coordinates (self._n_atoms), 0 while there is none
    attrs,                 \* self._handle.root._v_attrs
    topology,              \* the /topology array (one text record), or NoRecord
    constraints,           \* the /constraints table, or NoRecord
    contents,              \* the frame arrays under '/': name -> the data of its rows
    caller_set,            \* the attributes and records the callers have set on the file
    handle_closes,         \* how often self._handle.close() ran on this object
    topology_source,       \* the object the callers last stored as topology, or NoRecord
    scope,                 \* where the object is: "plain", "with" (inside a with block),
                           \* "left" (after the block), "none" (no object)
    last                   \* the latest call: its arguments, its outcome, the state it started from

vars == <<mode, is_open, frame_index, needs_initialization, nodes, n_atoms,
          attrs, topology, constraints, contents, caller_set, handle_closes, scope,
          topology_source, last>>

-----------------------------------------------------------------------------
(* Bounds of the model *)

\* the largest number of rows the model lets /coordinates grow to
MaxFrames == 2

\* the frame cursor is followed while it stays within -MaxCursor..MaxCursor
MaxCursor == 2 * MaxFrames + 1

\* atom counts of the coordinate batches handed to write()
AtomCounts == {1, 2}

\* batch sizes handed to write()
BatchSizes == 1..MaxFrames

\* the optional fields the modelled callers pass to write()
InputFields == {"time", "cell_lengths", "cell_angles", "lambda"}

\* n_frames arguments of read(): <<>> is None, <<n>> is the integer n
NFramesArgs == {<<>>} \cup {<<n>> : n \in 0..(MaxFrames + 1)}

\* the same with negative integers among them
IntNFramesArgs == NFramesArgs \cup {<<-1>>, <<-2>>}

\* stride arguments of read(): <<>> is None, <<s>> is the integer s
StrideArgs == {<<>>, <<1>>, <<2>>}

\* atom_indices arguments of read(): <<>> is None, <<a>> is the array a
AtomIndexArgs == {<<>>, <<<<0>>>>, <<<<1>>>>, <<<<-1>>>>, <<<<0, 2>>>>}

\* the data of the batches handed to write(): one value stands for a batch's numbers
DataValues == {"x"}

\* the same for callers whose batches differ
TwoDataValues == {"x", "y"}

\* the mode arguments of __init__, one of them outside 'r', 'w', 'a'
ModeArgs == {"r", "w", "a", "x"}

\* the strings handed to the setters of the scalar attributes
AttrValues == {"user"}

\* the values of the index attribute of chains, residues and atoms
IndexValues == {0, 1, 2}

\* the arrays handed to the constraints setter: their dtype and their rows
ConstraintArgs == {[dtype |-> "i4,i4,f4", rows |-> <<>>],
                   [dtype |-> "i4,i4,f4", rows |-> <<"row1">>],
                   [dtype |-> "i8,i8,f8", rows |-> <<"row2">>]}

-----------------------------------------------------------------------------
(* The file layout *)

\* the order in which write() visits the fields; alchemicalLambda is stored as 'lambda'
Names == <<"coordinates", "time", "cell_angles", "cell_lengths", "velocities",
           "kineticEnergy", "potentialEnergy", "temperature", "lambda">>

FieldNames == {Names[i] : i \in 1..Len(Names)}

\* getNode raises tables.NoSuchNodeError: there is no such array
Absent == -1

NoNodes == [f \in FieldNames |-> Absent]

\* an attribute, a topology record or a constraints table that was never stored
NoRecord == "None"

AttrNames == {"conventions", "conventionVersion", "program", "programVersion",
              "title", "application", "randomState", "forcefield", "reference"}

NoAttrs == [a \in AttrNames |-> NoRecord]

\* the rows of the arrays of a new file
NoRows == [f \in FieldNames |-> <<>>]

\* the field arrays the file holds
Schema(nd) == {f \in FieldNames : nd[f] # Absent}

\* len(self._handle.root.coordinates), for a file that has the array
NFrames(nd) == nd["coordinates"]

Min(a, b) == IF a <= b THEN a ELSE b
Max(a, b) == IF a >= b THEN a ELSE b

-----------------------------------------------------------------------------
(* The observation of a call *)

Snapshot == [mode |-> mode, is_open |-> is_open, frame_index |-> frame_index,
             needs_initialization |-> needs_initialization, nodes |-> nodes,
             n_atoms |-> n_atoms, attrs |-> attrs, topology |-> topology,
             constraints |-> constraints, contents |-> contents, caller_set |-> caller_set,
             handle_closes |-> handle_closes, scope |-> scope,
             topology_source |-> topology_source]

NoCall == [op |-> "open", result |-> "ok", supplied |-> {}, k |-> 0, atoms |-> 0,
           n_frames |-> <<>>, stride |-> <<>>, positions |-> <<>>,
           appended |-> {}, flushed |-> FALSE, after_read_all |-> FALSE,
           value |-> NoRecord, data |-> NoRecord, table |-> <<>>, store_ops |-> <<>>,
           ran_initializer |-> FALSE, force_overwrite |-> TRUE, exc |-> NoRecord,
           object |-> <<>>, returned |-> <<>>, atom_indices |-> <<>>, frames |-> <<>>]

Call(op, result) == [NoCall EXCEPT !.op = op, !.result = result]

-----------------------------------------------------------------------------
(* __init__ *)

Init ==
    /\ mode = "w"
    /\ is_open = TRUE
    /\ frame_index = 0
    /\ needs_initialization = TRUE
    /\ nodes = NoNodes
    /\ n_atoms = 0
    /\ attrs = NoAttrs
    /\ topology = NoRecord
    /\ constraints = NoRecord
    /\ contents = NoRows
    /\ caller_set = {}
    /\ handle_closes = 0
    /\ scope = "plain"
    /\ topology_source = NoRecord
    /\ last = [call |-> [NoCall EXCEPT !.store_ops = <<"openFile">>, !.value = "w"],
               pre |-> [mode |-> "w", is_open |-> FALSE, frame_index |-> 0,
                        needs_initialization |-> TRUE, nodes |-> NoNodes,
                        n_atoms |-> 0, attrs |-> NoAttrs, topology |-> NoRecord,
                        constraints |-> NoRecord, contents |-> NoRows, caller_set |-> {},
                        handle_closes |-> 0, scope |-> "none",
                        topology_source |-> NoRecord]]

-----------------------------------------------------------------------------
(* ensure_mode *)

\* a plausible slip: the decorator runs the method whatever the mode
ModeAllowed_Any(m, allowed) == TRUE

\* the decorator lets the method run when the file's mode is one of the allowed ones
ModeAllowed(m, allowed) == m \in allowed

-----------------------------------------------------------------------------
(* write *)

\* a plausible slip: only the first of the two checks is made
PairedFieldsOK_AnglesOnly(supplied) ==
    ~("cell_lengths" \notin supplied /\ "cell_angles" \in supplied)

\* cell_lengths and cell_angles are both given or both left out
PairedFieldsOK(supplied) ==
    ("cell_lengths" \in supplied) <=> ("cell_angles" \in supplied)

\* a plausible slip: the headers are written on every write
RunsInitializer_Always(flag) == TRUE

\* write() runs _initialize_headers when the file still needs it
RunsInitializer(flag) == flag

\* the arrays _initialize_headers creates on top of the arrays nd
InitializeHeaders(nd, supplied) ==
    LET set_cell == "cell_lengths" \in supplied \/ "cell_angles" \in supplied
        created == {"coordinates"}
                   \cup (supplied \ {"cell_lengths", "cell_angles"})
                   \cup (IF set_cell THEN {"cell_lengths", "cell_angles"} ELSE {})
    IN  [f \in FieldNames |-> IF f \in created THEN 0 ELSE nd[f]]

\* a plausible slip: the default replaces the value the file has
ApplicationDefault_Overwrites(current) == "MDTraj"

\* if not hasattr(root._v_attrs, 'application'): application = 'MDTraj'
ApplicationDefault(current) == IF current = NoRecord THEN "MDTraj" ELSE current

\* the root attributes _initialize_headers stamps
InitializeAttrs(at) ==
    [at EXCEPT !["conventions"] = "Pande",
               !["conventionVersion"] = "1.0",
               !["program"] = "MDTraj",
               !["programVersion"] = "short_version",
               !["title"] = "title",
               !["application"] = ApplicationDefault(@)]

\* a plausible slip: coordinates of any atom count are appended
FieldStep_NoShapeCheck(name, nd, supplied, fits) ==
    IF name \in supplied
    THEN IF nd[name] = Absent THEN "UnknownFieldError" ELSE "append"
    ELSE IF nd[name] # Absent THEN "MissingFieldError"
         ELSE "skip"

\* a plausible slip: a field the caller left out is never looked up in the file
FieldStep_NoMissingCheck(name, nd, supplied, fits) ==
    IF name \in supplied
    THEN IF nd[name] = Absent THEN "UnknownFieldError"
         ELSE IF name = "coordinates" /\ ~fits THEN "ShapeError"
         ELSE "append"
    ELSE "skip"

\* one turn of the loop over the fields: a supplied field is appended to its array,
\* and it is an error for a supplied field to have no array (NoSuchNodeError) and for
\* an array to have no supplied field (AssertionError); fits says that the batch has
\* the atom count of /coordinates, whose append refuses rows of another shape
FieldStep(name, nd, supplied, fits) ==
    IF name \in supplied
    THEN IF nd[name] = Absent THEN "UnknownFieldError"
         ELSE IF name = "coordinates" /\ ~fits THEN "ShapeError"
         ELSE "append"
    ELSE IF nd[name] # Absent THEN "MissingFieldError"
         ELSE "skip"

\* the loop over the fields, from the i-th on, with the fields appended so far
RECURSIVE AppendFields(_, _, _, _, _, _)
AppendFields(i, nd, supplied, k, fits, done) ==
    IF i > Len(Names) THEN [nodes |-> nd, error |-> "ok", appended |-> done]
    ELSE LET name == Names[i]
             step == FieldStep(name, nd, supplied, fits)
         IN  IF step = "append"
             THEN AppendFields(i + 1, [nd EXCEPT ![name] = @ + k], supplied, k, fits,
                               done \cup {name})
             ELSE IF step = "skip"
             THEN AppendFields(i + 1, nd, supplied, k, fits, done)
             ELSE [nodes |-> nd, error |-> step, appended |-> done]

Rejected(op, result, call) ==
    /\ last' = [call |-> [call EXCEPT !.op = op, !.result = result], pre |-> Snapshot]
    /\ UNCHANGED <<mode, is_open, frame_index, needs_initialization, nodes, n_atoms,
                   attrs, topology, constraints, contents, caller_set, handle_closes, scope,
                   topology_source>>

\* array.append(contents): the k rows of the batch go after the rows the array has
AppendRows(old, k, data) == old \o [j \in 1..k |-> data]

\* a plausible slip: flush() returns without reaching the handle
FlushOps_Never(open) == <<>>

\* flush(): what it does on the backing store
FlushOps(open) == IF open THEN <<"flush">> ELSE <<>>

WriteCall(supplied, k, atoms, data) ==
    LET call == [NoCall EXCEPT !.op = "write", !.supplied = supplied, !.k = k,
                               !.atoms = atoms, !.data = data]
    IN
    /\ is_open
    /\ Max(NFrames(nodes), 0) + k <= MaxFrames
    /\ IF ~ModeAllowed(mode, {"w", "a"}) THEN Rejected("write", "ModeError", call)
       ELSE IF ~PairedFieldsOK(supplied) THEN Rejected("write", "PairedFieldError", call)
       ELSE LET init == RunsInitializer(needs_initialization)
                nd0 == IF init THEN InitializeHeaders(nodes, supplied) ELSE nodes
                atoms0 == IF init THEN atoms ELSE n_atoms
                r == AppendFields(1, nd0, supplied, k, atoms = atoms0, {})
                base == [f \in FieldNames |->
                            IF init /\ nd0[f] = 0 THEN <<>> ELSE contents[f]]
                IsAppended(name) == name \in r.appended
            IN  /\ nodes' = r.nodes
                /\ contents' = [f \in FieldNames |->
                               IF f \in r.appended THEN AppendRows(base[f], k, data)
                               ELSE base[f]]
                /\ n_atoms' = atoms0
                /\ attrs' = IF init THEN InitializeAttrs(attrs) ELSE attrs
                /\ needs_initialization' = FALSE
                /\ frame_index' = IF r.error = "ok" THEN frame_index + k ELSE frame_index
                /\ last' = [call |-> [call EXCEPT !.result = r.error,
                                                  !.appended = r.appended,
                                                  !.flushed = (r.error = "ok"),
                                                  !.ran_initializer = init,
                                                  !.store_ops =
                                                      SelectSeq(Names, IsAppended) \o
                                                      (IF r.error = "ok"
                                                       THEN FlushOps(is_open) ELSE <<>>)],
                            pre |-> Snapshot]
                /\ UNCHANGED <<mode, is_open, topology, constraints, caller_set,
                               handle_closes, scope, topology_source>>

Write ==
    \E S \in SUBSET InputFields, k \in BatchSizes, atoms \in AtomCounts,
       data \in DataValues :
        WriteCall({"coordinates"} \cup S, k, atoms, data)

-----------------------------------------------------------------------------
(* read *)

\* min(self._frame_index + n_frames, total_n_frames), n_frames being np.inf for None
ReadStop(index, n_frames, total) ==
    IF n_frames = <<>> THEN total ELSE Min(index + n_frames[1], total)

\* frame_slice.stop - frame_slice.start == 0
EmptyWindow(start, stop) == stop - start = 0

\* what the read adds to self._frame_index
ReadAdvance(index, n_frames, total) ==
    IF n_frames = <<>> THEN total ELSE Min(n_frames[1], total)

\* a slice bound, as slice.indices(rows) places it for a positive step
SliceBound(x, rows) == IF x < 0 THEN Max(x + rows, 0) ELSE Min(x, rows)

\* the rows node[start:stop:step] selects from an array of that many rows
SliceRows(start, stop, stride, rows) ==
    LET step == IF stride = <<>> THEN 1 ELSE stride[1]
        lo == SliceBound(start, rows)
        hi == SliceBound(stop, rows)
        n == IF hi > lo THEN (hi - lo + step - 1) \div step ELSE 0
    IN  [j \in 1..n |-> lo + (j - 1) * step]

\* np.all(atom_slice < coordinates.shape[1]) and np.all(atom_slice >= 0)
AtomIndicesOK(indices, atoms) ==
    /\ \A j \in 1..Len(indices) : indices[j] < atoms
    /\ \A j \in 1..Len(indices) : indices[j] >= 0

\* get_field: None for an array the file does not have, else the rows the frame
\* slice selects from the array
GetField(name, start, stop, stride) ==
    IF nodes[name] = Absent THEN <<>>
    ELSE LET selected == SliceRows(start, stop, stride, nodes[name])
         IN  <<[j \in 1..Len(selected) |-> contents[name][selected[j] + 1]]>>

ReadCall(n_frames, stride, atom_indices) ==
    LET call == [NoCall EXCEPT !.op = "read", !.n_frames = n_frames, !.stride = stride,
                     !.atom_indices = atom_indices,
                     !.after_read_all = /\ last.call.op = "read"
                                        /\ last.call.n_frames = <<>>
                                        /\ last.call.result \in {"frames", "empty"}]
    IN
    /\ is_open
    /\ IF ~ModeAllowed(mode, {"r"}) THEN Rejected("read", "ModeError", call)
       ELSE IF nodes["coordinates"] = Absent
       THEN Rejected("read", "NoSuchNodeError", call)
       ELSE LET total == NFrames(nodes)
                start == frame_index
                stop == ReadStop(frame_index, n_frames, total)
            IN  IF EmptyWindow(start, stop) THEN Rejected("read", "empty", call)
                ELSE IF atom_indices # <<>> /\ ~AtomIndicesOK(atom_indices[1], n_atoms)
                THEN Rejected("read", "ValueError", call)
                ELSE /\ frame_index' = frame_index + ReadAdvance(frame_index, n_frames, total)
                     /\ frame_index' \in -MaxCursor..MaxCursor
                     /\ last' = [call |-> [call EXCEPT !.result = "frames",
                                     !.positions = SliceRows(start, stop, stride, total),
                                     !.frames = [f \in FieldNames |->
                                                   GetField(f, start, stop, stride)]],
                                 pre |-> Snapshot]
                     /\ UNCHANGED <<mode, is_open, needs_initialization, nodes, n_atoms,
                                    attrs, topology, constraints, contents, caller_set,
                                    handle_closes, scope, topology_source>>

Read ==
    \E n_frames \in NFramesArgs, stride \in StrideArgs : ReadCall(n_frames, stride, <<>>)

\* read() of a caller that names the atoms it wants
ReadSubset ==
    \E n_frames \in {<<>>, <<1>>}, atom_indices \in AtomIndexArgs :
        ReadCall(n_frames, <<>>, atom_indices)

\* read() of a caller that passes any integer for n_frames
ReadAnyInt ==
    \E n_frames \in IntNFramesArgs, stride \in StrideArgs :
        ReadCall(n_frames, stride, <<>>)

-----------------------------------------------------------------------------
(* close, flush, the context manager, the finalizer *)

\* a plausible slip: close() does not look at self._open
ClosesHandle_Always(open) == TRUE

\* close() closes the handle when the file is open
ClosesHandle(open) == open

\* a plausible slip: __exit__ returns a true value when an exception comes in
ExitSuppresses_Errors(exc) == exc # NoRecord

\* __exit__ returns None: the exception that left the block is not suppressed
ExitSuppresses(exc) == FALSE

\* close(), called as the method op; the object is in scope after it
CloseCall(op, exc, after) ==
    LET closes == ClosesHandle(is_open) IN
    /\ is_open' = FALSE
    /\ handle_closes' = IF closes THEN handle_closes + 1 ELSE handle_closes
    /\ scope' = after
    /\ last' = [call |-> [NoCall EXCEPT
                    !.op = op, !.exc = exc,
                    !.result = IF exc # NoRecord /\ ~ExitSuppresses(exc)
                               THEN "propagates" ELSE "ok",
                    !.store_ops = IF closes THEN <<"close">> ELSE <<>>],
                pre |-> Snapshot]
    /\ UNCHANGED <<mode, frame_index, needs_initialization, nodes, n_atoms,
                   attrs, topology, constraints, contents, caller_set, topology_source>>

Close == scope # "none" /\ CloseCall("close", NoRecord, scope)

Flush ==
    /\ scope # "none"
    /\ last' = [call |-> [NoCall EXCEPT !.op = "flush", !.store_ops = FlushOps(is_open)],
                pre |-> Snapshot]
    /\ UNCHANGED <<mode, is_open, frame_index, needs_initialization, nodes, n_atoms,
                   attrs, topology, constraints, contents, caller_set, handle_closes, scope,
                   topology_source>>

\* __enter__: the with block starts
Enter ==
    /\ scope = "plain"
    /\ scope' = "with"
    /\ last' = [call |-> Call("__enter__", "ok"), pre |-> Snapshot]
    /\ UNCHANGED <<mode, is_open, frame_index, needs_initialization, nodes, n_atoms,
                   attrs, topology, constraints, contents, caller_set, handle_closes,
                   topology_source>>

\* __exit__: the with block is left, normally or by an exception raised in it
Exit ==
    /\ scope = "with"
    /\ \E exc \in {NoRecord, "error"} : CloseCall("__exit__", exc, "left")

\* __del__: the object, no longer referenced, is finalized
Del ==
    /\ scope \in {"plain", "left"}
    /\ CloseCall("__del__", NoRecord, "none")

-----------------------------------------------------------------------------
(* __init__ on the file the earlier object has left *)

\* mode must be one of 'r', 'w', 'a'
ValidMode(m) == m \in {"r", "w", "a"}

\* a plausible slip: an existing file is never refused
RefusesOverwrite_Never(m, force_overwrite, exists) == FALSE

\* mode == 'w' and not force_overwrite and os.path.exists(filename)
RefusesOverwrite(m, force_overwrite, exists) == m = "w" /\ ~force_overwrite /\ exists

\* a plausible slip: no mode leaves the header to the first write
NeedsInitialization_Never(m) == FALSE

\* self._needs_initialization as __init__ sets it: True in mode 'w' only
NeedsInitialization(m) == m = "w"

\* a plausible slip: the cursor of an appending object starts at the first frame
AppendCursor_Zero(nd) == 0

\* in append mode the cursor starts at len(self._handle.root.coordinates)
AppendCursor(nd) == NFrames(nd)

\* a new HDF5TrajectoryFile on the file, which exists since the first one was made
Open(m, force_overwrite) ==
    LET call == [NoCall EXCEPT !.op = "open", !.value = m,
                               !.force_overwrite = force_overwrite,
                               !.store_ops = <<"openFile">>]
        refused(error, ops, closes) ==
            /\ is_open' = FALSE
            /\ frame_index' = 0
            /\ needs_initialization' = FALSE
            /\ handle_closes' = closes
            /\ scope' = "none"
            /\ last' = [call |-> [call EXCEPT !.result = error, !.store_ops = ops],
                        pre |-> Snapshot]
            /\ UNCHANGED <<nodes, n_atoms, attrs, topology, constraints, contents, caller_set,
                           topology_source>>
    IN
    /\ ~is_open
    /\ mode' = m
    /\ IF ~ValidMode(m) THEN refused("ValueError", <<>>, 0)
       ELSE IF RefusesOverwrite(m, force_overwrite, TRUE) THEN refused("IOError", <<>>, 0)
       ELSE IF m = "w"
       THEN /\ is_open' = TRUE
            /\ frame_index' = 0
            /\ needs_initialization' = NeedsInitialization(m)
            /\ nodes' = NoNodes /\ n_atoms' = 0 /\ attrs' = NoAttrs
            /\ topology' = NoRecord /\ constraints' = NoRecord
            /\ contents' = NoRows /\ caller_set' = {}
            /\ topology_source' = NoRecord
            /\ handle_closes' = 0 /\ scope' = "plain"
            /\ last' = [call |-> call, pre |-> Snapshot]
       ELSE IF m = "a" /\ nodes["coordinates"] = Absent
       THEN \* the handler names tables.NoSuchNodeError, and tables is no name of the
            \* module: NameError leaves __init__, and the finalizer closes the handle
            refused("NameError", <<"openFile", "close">>, 1)
       ELSE /\ is_open' = TRUE
            /\ frame_index' = IF m = "a" THEN AppendCursor(nodes) ELSE 0
            /\ needs_initialization' = NeedsInitialization(m)
            /\ handle_closes' = 0 /\ scope' = "plain"
            /\ last' = [call |-> call, pre |-> Snapshot]
            /\ UNCHANGED <<nodes, n_atoms, attrs, topology, constraints, contents, caller_set,
                           topology_source>>

Reopen == \E m \in {"r", "w", "a"} : Open(m, TRUE)

\* __init__ with any mode argument, with and without force_overwrite
ReopenAny == \E m \in ModeArgs, force_overwrite \in BOOLEAN : Open(m, force_overwrite)

-----------------------------------------------------------------------------
(* the setters of the root attributes, of the topology and of the constraints *)

SetAttr(name, value) ==
    LET call == [NoCall EXCEPT !.op = name, !.value = value] IN
    /\ is_open
    /\ IF ~ModeAllowed(mode, {"w", "a"}) THEN Rejected(name, "ModeError", call)
       ELSE /\ attrs' = [attrs EXCEPT ![name] = value]
            /\ caller_set' = caller_set \cup {name}
            /\ last' = [call |-> call, pre |-> Snapshot]
            /\ UNCHANGED <<mode, is_open, frame_index, needs_initialization, nodes,
                           n_atoms, topology, constraints, contents, handle_closes, scope,
                           topology_source>>

SetTitle == \E v \in AttrValues : SetAttr("title", v)
SetApplication == \E v \in AttrValues : SetAttr("application", v)
SetRandomState == \E v \in AttrValues : SetAttr("randomState", v)
SetForcefield == \E v \in AttrValues : SetAttr("forcefield", v)
SetReference == \E v \in AttrValues : SetAttr("reference", v)

\* what a topology object exposes: chains and bonds on the object, residues on its
\* chains, atoms on its residues
FullProtocol == {"chains", "residues", "atoms", "bonds"}

\* the objects of a topology: an atom has its identity (id), the index attribute the
\* setter reads, and an element; a bond names its two atom objects by id
Atom(id, index, element) == [id |-> id, index |-> index, element |-> element]
Residue(index, atoms) == [index |-> index, atoms |-> atoms]
Chain(index, residues) == [index |-> index, residues |-> residues]
TopologyObject(protocol, chains, bonds) ==
    [protocol |-> protocol, chains |-> chains, bonds |-> bonds]

\* the objects handed to the topology setter next to the attribute setters: one chain
\* of one residue of two atoms, without and with the bond, and one without chains
TopologyArgs ==
    LET a1 == Atom(1, 0, "H")
        a2 == Atom(2, 1, "C")
        chains == <<Chain(0, <<Residue(0, <<a1, a2>>)>>)>>
    IN  { TopologyObject(FullProtocol, chains, <<>>),
          TopologyObject(FullProtocol, chains, <<<<1, 2>>>>),
          TopologyObject({"residues", "atoms", "bonds"}, <<>>, <<>>) }

\* topologies of two bonded atoms: in one residue, in two residues of one chain, in
\* two chains; any two different index values on the atoms, the two orders of the
\* index values on residues or chains
TwoAtomTopologies ==
    { TopologyObject(FullProtocol, chains, <<<<1, 2>>>>) :
        chains \in UNION {
            LET a1 == Atom(1, i[1], "H")
                a2 == Atom(2, i[2], "C")
            IN  { <<Chain(0, <<Residue(0, <<a1, a2>>)>>)>>,
                  <<Chain(0, <<Residue(o[1], <<a1>>), Residue(o[2], <<a2>>)>>)>>,
                  <<Chain(o[1], <<Residue(0, <<a1>>)>>),
                    Chain(o[2], <<Residue(0, <<a2>>)>>)>> } :
            i \in {p \in IndexValues \X IndexValues : p[1] # p[2]},
            o \in {<<0, 1>>, <<1, 0>>} } }

\* the atom objects of a topology, in the order the setter walks them
RECURSIVE WalkAtoms(_, _, _)
WalkAtoms(chains, c, r) ==
    IF c > Len(chains) THEN <<>>
    ELSE IF r > Len(chains[c].residues) THEN WalkAtoms(chains, c + 1, 1)
    ELSE chains[c].residues[r].atoms \o WalkAtoms(chains, c, r + 1)

\* topologies of three atoms with the index values 0, 1, 2 in any order: a residue
\* of two atoms and a residue of one in one chain, and one bond
ThreeAtomTopologies ==
    { TopologyObject(FullProtocol, chains, <<b>>) :
        chains \in UNION {
            LET a1 == Atom(1, i[1], "H")
                a2 == Atom(2, i[2], "C")
                a3 == Atom(3, i[3], "C")
            IN  { <<Chain(0, <<Residue(0, <<a1, a2>>), Residue(1, <<a3>>)>>)>> } :
            i \in {p \in IndexValues \X IndexValues \X IndexValues :
                     p[1] # p[2] /\ p[1] # p[3] /\ p[2] # p[3]} },
        b \in {<<1, 2>>, <<2, 3>>, <<1, 3>>} }

\* objects that are no topology: one without chains, one whose chain has no residues
\* attribute, one without bonds
BrokenTopologies ==
    LET chains == <<Chain(0, <<Residue(0, <<Atom(1, 0, "H")>>)>>)>>
    IN  { TopologyObject(FullProtocol \ {"chains"}, <<>>, <<>>),
          TopologyObject(FullProtocol \ {"residues"}, chains, <<>>),
          TopologyObject(FullProtocol \ {"bonds"}, chains, <<>>) }

\* the objects handed to the setter by callers of any kind
SourceTopologies == TwoAtomTopologies \cup ThreeAtomTopologies \cup BrokenTopologies

\* the atom object a bond of the object names
BondAtom(obj, id) ==
    LET atoms == WalkAtoms(obj.chains, 1, 1)
    IN  atoms[CHOOSE j \in 1..Len(atoms) : atoms[j].id = id]

\* the setter's try block raises AttributeError: the object lacks chains or bonds, a
\* chain it walks lacks residues, or a residue it walks lacks atoms
ExposesTopology(obj) ==
    /\ "chains" \in obj.protocol
    /\ "bonds" \in obj.protocol
    /\ Len(obj.chains) > 0 => "residues" \in obj.protocol
    /\ (\E c \in 1..Len(obj.chains) : Len(obj.chains[c].residues) > 0) =>
          "atoms" \in obj.protocol

\* the dictionaries the setter builds: index and element of an atom, index and atoms
\* of a residue, index and residues of a chain, the two index values of a bond
EncodeAtom(atom) == [index |-> atom.index, element |-> atom.element]
EncodeResidue(residue) ==
    [index |-> residue.index,
     atoms |-> [j \in 1..Len(residue.atoms) |-> EncodeAtom(residue.atoms[j])]]
EncodeChain(chain) ==
    [index |-> chain.index,
     residues |-> [j \in 1..Len(chain.residues) |-> EncodeResidue(chain.residues[j])]]
EncodeTopology(obj) ==
    [chains |-> [j \in 1..Len(obj.chains) |-> EncodeChain(obj.chains[j])],
     bonds |-> [j \in 1..Len(obj.bonds) |->
                  <<BondAtom(obj, obj.bonds[j][1]).index,
                    BondAtom(obj, obj.bonds[j][2]).index>>]]

SetTopologyCall(obj) ==
    LET call == [NoCall EXCEPT !.op = "topology", !.object = obj] IN
    /\ is_open
    /\ IF ~ModeAllowed(mode, {"w", "a"}) THEN Rejected("topology", "ModeError", call)
       ELSE IF ~ExposesTopology(obj) THEN Rejected("topology", "AttributeError", call)
       ELSE \* removeNode, then createArray of the one text record
            /\ topology' = <<EncodeTopology(obj)>>
            /\ topology_source' = obj
            /\ caller_set' = caller_set \cup {"topology"}
            /\ last' = [call |-> call, pre |-> Snapshot]
            /\ UNCHANGED <<mode, is_open, frame_index, needs_initialization, nodes,
                           n_atoms, attrs, constraints, contents, handle_closes, scope>>

SetTopology == \E obj \in TopologyArgs : SetTopologyCall(obj)

\* the setter with the topologies of callers of any kind
SetAnyTopology == \E obj \in SourceTopologies : SetTopologyCall(obj)

\* sorted(dicts, key=operator.itemgetter('index')): a stable sort by the index key
RECURSIVE SortByIndex(_)
SortByIndex(dicts) ==
    IF Len(dicts) = 0 THEN <<>>
    ELSE LET x == dicts[Len(dicts)]
             s == SortByIndex(SubSeq(dicts, 1, Len(dicts) - 1))
             n == Cardinality({j \in 1..Len(s) : s[j].index <= x.index})
         IN  SubSeq(s, 1, n) \o <<x>> \o SubSeq(s, n + 1, Len(s))

\* the chains of the record as the getter rebuilds them: chains, residues and atoms
\* each sorted by their index key
SortedChains(record) ==
    LET SortAtoms(residue) == [residue EXCEPT !.atoms = SortByIndex(@)]
        SortResidues(chain) ==
            LET rs == SortByIndex(chain.residues)
            IN  [chain EXCEPT !.residues = [j \in 1..Len(rs) |-> SortAtoms(rs[j])]]
        cs == SortByIndex(record.chains)
    IN  [j \in 1..Len(cs) |-> SortResidues(cs[j])]

\* atoms[index]: list(topology.atoms) has that position
HasAtom(atoms, index) == index < Len(atoms)

\* the Topology the getter builds from the record: add_chain, add_residue and
\* add_atom in the sorted order, the atoms numbered as they are added, and add_bond
\* of atoms[index1], atoms[index2] for the two numbers of each stored bond
DecodeTopology(record) ==
    LET chains == SortedChains(record)
        atoms == WalkAtoms(chains, 1, 1)
    IN  IF \E j \in 1..Len(record.bonds) :
               ~HasAtom(atoms, record.bonds[j][1]) \/ ~HasAtom(atoms, record.bonds[j][2])
        THEN [error |-> "IndexError", chains |-> <<>>, atoms |-> <<>>, bonds |-> <<>>]
        ELSE [error |-> "ok",
              chains |-> [c \in 1..Len(chains) |->
                            [r \in 1..Len(chains[c].residues) |->
                               [a \in 1..Len(chains[c].residues[r].atoms) |->
                                  chains[c].residues[r].atoms[a].element]]],
              atoms |-> [j \in 1..Len(atoms) |-> [index |-> j - 1,
                                                   element |-> atoms[j].element]],
              bonds |-> record.bonds]

\* the topology getter
GetTopology ==
    /\ is_open
    /\ LET decoded == IF topology = NoRecord THEN <<>> ELSE <<DecodeTopology(topology[1])>>
           result == IF topology = NoRecord THEN "None"
                     ELSE decoded[1].error
       IN  last' = [call |-> [NoCall EXCEPT !.op = "get_topology", !.result = result,
                                            !.returned = decoded],
                    pre |-> Snapshot]
    /\ UNCHANGED <<mode, is_open, frame_index, needs_initialization, nodes, n_atoms,
                   attrs, topology, constraints, contents, caller_set, handle_closes,
                   scope, topology_source>>

\* a plausible slip: the layout of the array is not looked at
ConstraintsDtypeOK_Any(value) == TRUE

\* value.dtype == dtype, the layout (atom1: int32, atom2: int32, distance: float32)
ConstraintsDtypeOK(value) == value.dtype = "i4,i4,f4"

\* a plausible slip: the rows the table holds are not dropped
TruncateTable_Keeps(table) == table

\* self._handle.root.constraints.truncate(0)
TruncateTable(table) == <<>>

SetConstraintsCall(value) ==
    LET call == [NoCall EXCEPT !.op = "constraints", !.value = value.dtype,
                               !.table = value.rows]
        \* the table, created empty (createTable) when the file has none
        table == IF constraints = NoRecord THEN <<>> ELSE constraints
    IN
    /\ is_open
    /\ IF ~ModeAllowed(mode, {"w", "a"}) THEN Rejected("constraints", "ModeError", call)
       ELSE IF ~ConstraintsDtypeOK(value) THEN Rejected("constraints", "ValueError", call)
       ELSE /\ constraints' = TruncateTable(table) \o value.rows
            /\ caller_set' = caller_set \cup {"constraints"}
            /\ last' = [call |-> call, pre |-> Snapshot]
            /\ UNCHANGED <<mode, is_open, frame_index, needs_initialization, nodes,
                           n_atoms, attrs, topology, contents, handle_closes, scope,
                           topology_source>>

\* the constraints getter: the whole table, or None when the file has none
GetConstraints ==
    IF constraints = NoRecord THEN NoRecord ELSE SubSeq(constraints, 1, Len(constraints))

\* the getter of a scalar attribute: its value, or None when the file has none
GetAttr(name) == IF attrs[name] = NoRecord THEN NoRecord ELSE attrs[name]

SetConstraints == \E value \in ConstraintArgs : SetConstraintsCall(value)

\* the writes of the callers that set the attributes: one frame of one atom
WriteOneFrame == \E S \in {{}, {"time"}} : WriteCall({"coordinates"} \cup S, 1, 1, "x")

\* the writes of callers whose batches differ in their data
WriteData ==
    \E S \in {{}, {"time"}}, k \in BatchSizes, data \in TwoDataValues :
        WriteCall({"coordinates"} \cup S, k, 1, data)

-----------------------------------------------------------------------------

Next == Write \/ Read \/ Close \/ Reopen

NextAnyInt == Write \/ ReadAnyInt \/ Close \/ Reopen

NextMeta ==
    \/ WriteOneFrame
    \/ SetTitle \/ SetApplication \/ SetRandomState \/ SetForcefield \/ SetReference
    \/ SetTopology \/ SetConstraints
    \/ Close \/ Reopen

\* writes of batches that differ, over sessions in every mode
NextData == WriteData \/ Close \/ Reopen

\* the life of the object: construction with any arguments, close, flush, the with
\* block, the finalizer
NextSession ==
    WriteOneFrame \/ ReopenAny \/ Close \/ Flush \/ Enter \/ Exit \/ Del

\* reads of chosen atoms from files written one frame at a time
NextSubset == WriteOneFrame \/ ReadSubset \/ Close \/ Reopen

\* reads, strided or not, of files whose batches differ in their data
NextStrided == WriteData \/ Read \/ Close \/ Reopen

\* the topology of callers of any kind, stored and read back, over sessions in every
\* mode
NextTopology == SetAnyTopology \/ GetTopology \/ Close \/ Reopen

\* the frame operations on one file, over any number of sessions
Spec == Init /\ [][Next]_vars

\* the same with reads of any integer n_frames
SpecAnyInt == Init /\ [][NextAnyInt]_vars

\* the attribute, topology and constraints operations, with writes of one frame
SpecMeta == Init /\ [][NextMeta]_vars

\* writes of batches that differ in their data
SpecData == Init /\ [][NextData]_vars

\* reads of chosen atoms
SpecSubset == Init /\ [][NextSubset]_vars

\* strided reads of files whose batches differ
SpecStrided == Init /\ [][NextStrided]_vars

\* the topology stored and read back
SpecTopology == Init /\ [][NextTopology]_vars

\* construction, close, flush, with block and finalizer
SpecSession == Init /\ [][NextSession]_vars

-----------------------------------------------------------------------------
(* The claims *)

\* the call the state has just seen, and the state it started from
TheCall == last.call
Before == last.pre

\* the call ran against a file that write() may change
WritableBefore == Before.mode \in {"w", "a"}

\* nothing the file stores and nothing the cursor logic reads has changed
NothingMutated ==
    /\ frame_index = Before.frame_index
    /\ needs_initialization = Before.needs_initialization
    /\ nodes = Before.nodes
    /\ n_atoms = Before.n_atoms
    /\ attrs = Before.attrs
    /\ topology = Before.topology
    /\ constraints = Before.constraints
    /\ contents = Before.contents

\* the read window [cursor, min(cursor + n_frames, total_frames)) of the latest read
WindowStart == Before.frame_index
WindowStop ==
    IF TheCall.n_frames = <<>> THEN NFrames(Before.nodes)
    ELSE Min(Before.frame_index + TheCall.n_frames[1], NFrames(Before.nodes))

\* the latest call is a read that got past the mode gate and found /coordinates
ReadRan == TheCall.op = "read" /\ TheCall.result \in {"frames", "empty"}

\* C1: every field array of the file has as many frames as /coordinates, after any
\* sequence of successful and failed write calls.
C1_NoRaggedField ==
    \A f \in Schema(nodes) : nodes[f] = nodes["coordinates"]

\* the latest call is a write on an initialized file that passed the mode gate,
\* the pairing check and the shape checks
WriteReachedFieldLoop ==
    /\ TheCall.op = "write"
    /\ WritableBefore
    /\ ~Before.needs_initialization
    /\ Cardinality(TheCall.supplied \cap {"cell_lengths", "cell_angles"}) # 1
    /\ TheCall.atoms = Before.n_atoms

OmittedFields == Schema(Before.nodes) \ TheCall.supplied
UnknownFields == TheCall.supplied \ Schema(Before.nodes)

\* C2 as stated: on an initialized file a write that omits a schema field raises
\* MissingFieldError, a write that supplies a field outside the schema raises
\* UnknownFieldError, and a write of exactly the schema's fields raises neither.
C2_MissingAndUnknownAsStated ==
    WriteReachedFieldLoop =>
        /\ OmittedFields # {} => TheCall.result = "MissingFieldError"
        /\ UnknownFields # {} => TheCall.result = "UnknownFieldError"
        /\ (OmittedFields = {} /\ UnknownFields = {}) =>
               TheCall.result \notin {"MissingFieldError", "UnknownFieldError"}

\* C2 amended: the first field, in the fixed order, on which the write and the schema
\* differ decides the error: MissingFieldError when the schema has it and the write
\* omits it, UnknownFieldError when the write supplies it and the schema lacks it; a
\* write of exactly the schema's fields raises neither.
C2_FirstDifferenceDecides ==
    WriteReachedFieldLoop =>
        LET differ == {i \in 1..Len(Names) :
                          (Names[i] \in TheCall.supplied) # (Names[i] \in Schema(Before.nodes))}
        IN  IF differ = {}
            THEN TheCall.result \notin {"MissingFieldError", "UnknownFieldError"}
            ELSE LET first == CHOOSE i \in differ : \A j \in differ : i <= j
                 IN  TheCall.result = IF Names[first] \in TheCall.supplied
                                      THEN "UnknownFieldError" ELSE "MissingFieldError"

\* C2 witness: a write that both omits a schema field and supplies an unknown one
C2_Witness ==
    /\ WriteReachedFieldLoop
    /\ OmittedFields # {}
    /\ UnknownFields # {}
    /\ TheCall.result = "MissingFieldError"

\* C3: on a file open in read mode the frame cursor never exceeds the number of
\* frames on disk.
C3_CursorWithinFile ==
    (mode = "r" /\ is_open /\ nodes["coordinates"] # Absent) =>
        frame_index <= NFrames(nodes)

\* C4: a read with a non-empty window advances the cursor by the raw window size,
\* min(cursor + n_frames, total_frames) - cursor, whatever the stride.
C4_AdvanceByWindow ==
    (ReadRan /\ WindowStop > WindowStart) =>
        frame_index - Before.frame_index = WindowStop - WindowStart

\* C5: read() without a frame limit returns every remaining frame up to the end of
\* the file, and a read() right after it returns an empty result and leaves the
\* cursor where it is.
C5_ReadAllThenEmpty ==
    (ReadRan /\ TheCall.n_frames = <<>>) =>
        /\ (Before.frame_index >= 0 /\ TheCall.stride = <<>> /\ TheCall.result = "frames") =>
               TheCall.positions =
                   [j \in 1..Max(NFrames(Before.nodes) - Before.frame_index, 0) |->
                        Before.frame_index + j - 1]
        /\ TheCall.after_read_all =>
               /\ TheCall.result = "empty" \/ TheCall.positions = <<>>
               /\ frame_index = Before.frame_index

\* C6: a read whose window holds no frame returns an empty result and leaves the
\* cursor unchanged.
C6_EmptyWindowNoMove ==
    (ReadRan /\ WindowStop <= WindowStart) =>
        /\ TheCall.result = "empty" \/ TheCall.positions = <<>>
        /\ frame_index = Before.frame_index

\* C7: over read and write calls, failed or not and for any integer n_frames, the
\* frame cursor never decreases and is never negative.
C7_CursorMonotonic ==
    /\ frame_index >= 0
    /\ TheCall.op \in {"read", "write"} => frame_index >= Before.frame_index

\* C8: once the schema is initialized no call on the file, successful or failed,
\* creates or removes a field array.
C8_SchemaFixed ==
    (TheCall.op # "open" /\ ~Before.needs_initialization) =>
        Schema(nodes) = Schema(Before.nodes)

\* C8 witness: a write on an initialized file failed on a field the file does not have
C8_Witness ==
    /\ TheCall.op = "write"
    /\ ~Before.needs_initialization
    /\ TheCall.result = "UnknownFieldError"
    /\ TheCall.appended # {}

\* C9: a write that supplies exactly one of cell_lengths and cell_angles raises
\* PairedFieldError before anything is mutated: no array is created or appended to,
\* the cursor stays, an uninitialized file stays uninitialized.
C9_PairedBeforeMutation ==
    ( /\ TheCall.op = "write"
      /\ WritableBefore
      /\ Cardinality(TheCall.supplied \cap {"cell_lengths", "cell_angles"}) = 1 ) =>
        /\ TheCall.result = "PairedFieldError"
        /\ NothingMutated

\* C9 witness: the first write on an uninitialized file carried cell_lengths alone
C9_Witness ==
    /\ TheCall.op = "write"
    /\ Before.needs_initialization
    /\ "cell_lengths" \in TheCall.supplied
    /\ "cell_angles" \notin TheCall.supplied
    /\ TheCall.result = "PairedFieldError"
    /\ needs_initialization

MutatingOps == {"write", "title", "application", "topology", "randomState",
                "forcefield", "reference", "constraints"}

\* C10: on a file open in read mode write and every setter are rejected with
\* ModeError and change nothing; in write and append mode none of them is rejected
\* for the mode.
C10_ModeGate ==
    TheCall.op \in MutatingOps =>
        /\ Before.mode = "r" => (TheCall.result = "ModeError" /\ NothingMutated)
        /\ Before.mode \in {"w", "a"} => TheCall.result # "ModeError"

\* C10 witness: a setter was rejected on a read-mode file that holds frames, a title
\* and a constraints table
C10_Witness ==
    /\ TheCall.op = "constraints"
    /\ Before.mode = "r"
    /\ TheCall.result = "ModeError"
    /\ constraints # NoRecord
    /\ nodes["coordinates"] # Absent

\* the latest call is a successful __init__ with that mode
Opened(m) == TheCall.op = "open" /\ TheCall.result = "ok" /\ TheCall.value = m

\* the latest call is a write that raised nothing
WriteSucceeded == TheCall.op = "write" /\ TheCall.result = "ok"

\* C11: in write mode the file is Uninitialized after open; the schema initializer
\* runs only in a write that starts Uninitialized and succeeds, and that write leaves
\* the file Initialized; no other call changes the state, and once Initialized the
\* object stays Initialized.
C11_InitializedOnce ==
    /\ Opened("w") => (needs_initialization /\ ~TheCall.ran_initializer)
    /\ (Before.mode = "w" /\ TheCall.op # "open") =>
        /\ TheCall.ran_initializer =>
              /\ TheCall.op = "write"
              /\ Before.needs_initialization
              /\ TheCall.result = "ok"
              /\ ~needs_initialization
        /\ (WriteSucceeded /\ Before.needs_initialization) => TheCall.ran_initializer
        /\ ~TheCall.ran_initializer => needs_initialization = Before.needs_initialization
        /\ ~Before.needs_initialization => ~needs_initialization

\* C11 witness: a write-mode file that is Initialized took another write, which did
\* not run the initializer again
C11_Witness ==
    /\ WriteSucceeded
    /\ Before.mode = "w"
    /\ ~Before.needs_initialization
    /\ ~TheCall.ran_initializer
    /\ NFrames(Before.nodes) > 0

\* the rows an array held before the latest call; an array not yet created held none
RowsBefore(f) == IF Before.nodes[f] = Absent THEN 0 ELSE Before.nodes[f]

\* C12: a successful write of k frames leaves every supplied field's array k rows
\* longer, the new rows being the batch's, moves the cursor by exactly k, and its
\* last operation on the backing store is a flush that follows the append of every
\* supplied field.
C12_WriteAppendsAndFlushes ==
    WriteSucceeded =>
        LET ops == TheCall.store_ops
            k == TheCall.k
        IN  /\ \A f \in TheCall.supplied :
                  /\ nodes[f] = RowsBefore(f) + k
                  /\ Len(contents[f]) = RowsBefore(f) + k
                  /\ \A j \in 1..RowsBefore(f) : contents[f][j] = Before.contents[f][j]
                  /\ \A j \in (RowsBefore(f) + 1)..(RowsBefore(f) + k) :
                        contents[f][j] = TheCall.data
                  /\ \E i \in 1..(Len(ops) - 1) : ops[i] = f
            /\ frame_index = Before.frame_index + k
            /\ Len(ops) = Cardinality(TheCall.supplied) + 1
            /\ ops[Len(ops)] = "flush"

\* C12 witness: a file that held a frame took a successful write of coordinates and
\* time
C12_Witness ==
    /\ WriteSucceeded
    /\ TheCall.supplied = {"coordinates", "time"}
    /\ Before.nodes["coordinates"] > 0
    /\ nodes["time"] = Before.nodes["time"] + TheCall.k
    /\ TheCall.store_ops = <<"coordinates", "time", "flush">>

\* every row an array held before the latest call is still there, unchanged
RowsKept ==
    \A f \in FieldNames :
        /\ Len(contents[f]) >= Len(Before.contents[f])
        /\ \A j \in 1..Len(Before.contents[f]) : contents[f][j] = Before.contents[f][j]

\* C13: __init__ in append mode on a file whose /coordinates holds N frames succeeds
\* with the cursor at N and the state Initialized, and changes nothing in the file;
\* a successful write of k frames that starts from that cursor leaves every row the
\* arrays held unchanged and the cursor, like the frame count, at N + k.
C13_AppendAfterExisting ==
    LET N == NFrames(Before.nodes) IN
    /\ ( /\ TheCall.op = "open"
          /\ TheCall.value = "a"
          /\ Before.nodes["coordinates"] # Absent ) =>
            /\ TheCall.result = "ok"
            /\ is_open
            /\ frame_index = N
            /\ ~needs_initialization
            /\ nodes = Before.nodes
            /\ contents = Before.contents
    /\ ( /\ WriteSucceeded
          /\ Before.mode = "a"
          /\ Before.frame_index = N ) =>
            /\ RowsKept
            /\ frame_index = N + TheCall.k
            /\ NFrames(nodes) = N + TheCall.k

\* C13 witness: a file holding one frame was opened for appending and took one frame
\* of other data, which went after the frame it held
C13_Witness ==
    /\ WriteSucceeded
    /\ Before.mode = "a"
    /\ Before.frame_index = 1
    /\ Before.contents["coordinates"] = <<"x">>
    /\ contents["coordinates"] = <<"x", "y">>
    /\ frame_index = 2

\* the latest call is a constraints set that raised nothing
ConstraintsSet == TheCall.op = "constraints" /\ TheCall.result = "ok"

\* C14: a constraints set on a writable file with an array of another record layout
\* than (atom1: int32, atom2: int32, distance: float32) raises the dtype error (a
\* ValueError) and changes nothing: the table the file had is as it was, and a file
\* without a table has none.
C14_LayoutCheckedFirst ==
    ( /\ TheCall.op = "constraints"
      /\ WritableBefore
      /\ TheCall.value # "i4,i4,f4" ) =>
        /\ TheCall.result = "ValueError"
        /\ NothingMutated
        /\ caller_set = Before.caller_set

\* C14 witness: an array of the wrong layout was refused on a file that held a table
\* of one row, which is still there
C14_Witness ==
    /\ TheCall.op = "constraints"
    /\ TheCall.result = "ValueError"
    /\ Before.constraints # NoRecord
    /\ constraints = <<"row1">>

\* C15: right after a successful constraints set the getter returns exactly the rows
\* of that set; no other call but the truncating open changes what it returns; and on
\* a file whose callers never set constraints it returns None.
C15_LastSetWins ==
    /\ ConstraintsSet => GetConstraints = TheCall.table
    /\ (~ConstraintsSet /\ ~Opened("w")) => constraints = Before.constraints
    /\ "constraints" \notin caller_set => GetConstraints = NoRecord

\* C15 witness: a table of one row was replaced by a successful set of one row, and
\* the table holds one row
C15_Witness ==
    /\ ConstraintsSet
    /\ Before.constraints # NoRecord
    /\ Len(Before.constraints) = 1
    /\ TheCall.table = <<"row1">>
    /\ Len(constraints) = 1

\* C16: title, forcefield, reference and randomState are None on every file whose
\* callers never set them, also after writes.
C16_UnsetScalarsAbsent ==
    \A a \in {"title", "forcefield", "reference", "randomState"} :
        a \notin caller_set => GetAttr(a) = NoRecord

\* C17: the write that runs the schema initializer leaves application at the value
\* the caller set, and sets it to the default 'MDTraj' only when the caller set none.
C17_ApplicationDefaultOnlyIfUnset ==
    TheCall.ran_initializer =>
        /\ "application" \in Before.caller_set =>
              GetAttr("application") = Before.attrs["application"]
        /\ "application" \notin Before.caller_set => GetAttr("application") = "MDTraj"

\* C17 witness: the caller set application before the first write, and the first
\* write has run the initializer
C17_Witness ==
    /\ TheCall.ran_initializer
    /\ "application" \in Before.caller_set
    /\ Before.attrs["application"] = "user"
    /\ attrs["application"] = "user"
    /\ attrs["program"] = "MDTraj"

\* the file holds what it held before the latest call
FileUnchanged ==
    /\ nodes = Before.nodes
    /\ n_atoms = Before.n_atoms
    /\ attrs = Before.attrs
    /\ topology = Before.topology
    /\ constraints = Before.constraints
    /\ contents = Before.contents

\* the file holds nothing: no array, no attribute, no record
FileEmpty ==
    /\ nodes = NoNodes
    /\ attrs = NoAttrs
    /\ topology = NoRecord
    /\ constraints = NoRecord
    /\ contents = NoRows

\* the constructor raised that error before it reached the backing store
RefusedUnopened(error) ==
    /\ TheCall.result = error
    /\ TheCall.store_ops = <<>>
    /\ ~is_open
    /\ handle_closes = 0
    /\ FileUnchanged

\* C18: __init__ with a mode outside 'r', 'w', 'a' raises the mode error (ValueError),
\* and with mode 'w', force_overwrite off and the file existing the already-exists
\* error (IOError); in both cases the store is not opened, the file is as it was and
\* the object holds no open handle. With force_overwrite on, mode 'w' on the existing
\* file succeeds and the file is empty.
C18_OpenRefusals ==
    TheCall.op = "open" =>
        /\ TheCall.value \notin {"r", "w", "a"} => RefusedUnopened("ValueError")
        /\ (TheCall.value = "w" /\ ~TheCall.force_overwrite) => RefusedUnopened("IOError")
        /\ (TheCall.value = "w" /\ TheCall.force_overwrite) =>
              /\ TheCall.result = "ok"
              /\ is_open
              /\ frame_index = 0
              /\ FileEmpty

\* C18 witness: mode 'w' without force_overwrite was refused on a file that holds a
\* frame, which is still there
C18_Witness ==
    /\ TheCall.op = "open"
    /\ TheCall.value = "w"
    /\ ~TheCall.force_overwrite
    /\ TheCall.result = "IOError"
    /\ nodes["coordinates"] = 1
    /\ ~is_open

\* C19: the handle of an object is closed at most once; close() on an open file
\* closes it, close() on a closed one does nothing; flush() on a closed file reaches
\* the store with nothing and raises nothing.
C19_CloseIdempotent ==
    /\ handle_closes <= 1
    /\ TheCall.op = "close" =>
          /\ ~is_open
          /\ TheCall.result = "ok"
          /\ FileUnchanged
          /\ Before.is_open =>
                (TheCall.store_ops = <<"close">> /\ handle_closes = Before.handle_closes + 1)
          /\ ~Before.is_open =>
                (TheCall.store_ops = <<>> /\ handle_closes = Before.handle_closes)
    /\ (TheCall.op = "flush" /\ ~Before.is_open) =>
          /\ TheCall.store_ops = <<>>
          /\ TheCall.result = "ok"
          /\ ~is_open
          /\ handle_closes = Before.handle_closes
          /\ FileUnchanged

\* C19 witness: close() was called on an object whose handle had been closed
C19_Witness ==
    /\ TheCall.op = "close"
    /\ ~Before.is_open
    /\ Before.handle_closes = 1
    /\ handle_closes = 1

\* flush() was called on an object whose handle had been closed
FlushAfterClose ==
    /\ TheCall.op = "flush"
    /\ ~Before.is_open
    /\ Before.handle_closes = 1

\* C20: leaving the with block closes an open file's handle, whether an exception
\* came out of the block or not, and the exception goes on to the caller; the
\* finalizer of an object closed that way closes nothing.
C20_ScopeExitReleases ==
    /\ TheCall.op = "__exit__" =>
          /\ ~is_open
          /\ Before.is_open =>
                (TheCall.store_ops = <<"close">> /\ handle_closes = Before.handle_closes + 1)
          /\ TheCall.exc # NoRecord => TheCall.result = "propagates"
          /\ TheCall.exc = NoRecord => TheCall.result = "ok"
    /\ (TheCall.op = "__del__" /\ Before.scope = "left") =>
          /\ TheCall.store_ops = <<>>
          /\ handle_closes = Before.handle_closes

\* C20 witness: an exception left the with block of an open file
C20_Witness ==
    /\ TheCall.op = "__exit__"
    /\ TheCall.exc = "error"
    /\ Before.is_open
    /\ TheCall.result = "propagates"
    /\ handle_closes = 1

\* the finalizer ran on an object whose with block had closed the handle
DelAfterExit ==
    /\ TheCall.op = "__del__"
    /\ Before.scope = "left"
    /\ Before.handle_closes = 1

\* the latest call is a topology get on a file that holds a topology record
TopologyRead == TheCall.op = "get_topology" /\ TheCall.result # "None"

\* the atom objects of a topology in stored-index order: chains by index, residues by
\* index within their chain, atoms by index within their residue
AtomsInIndexOrder(obj) == WalkAtoms(SortedChains(obj), 1, 1)

\* the number of residues of a topology object
RECURSIVE ResidueCount(_, _)
ResidueCount(chains, c) ==
    IF c > Len(chains) THEN 0
    ELSE Len(chains[c].residues) + ResidueCount(chains, c + 1)

\* the number of residues of a decoded topology
RECURSIVE DecodedResidueCount(_, _)
DecodedResidueCount(chains, c) ==
    IF c > Len(chains) THEN 0
    ELSE Len(chains[c]) + DecodedResidueCount(chains, c + 1)

\* C21: the topology read back from the record of a stored topology has as many
\* chains, residues and atoms as the stored one, the element symbols of its atoms in
\* stored-index order, and for every bond of the stored topology a bond between the
\* atoms that stand for the same two atoms.
C21_RoundTrip ==
    TopologyRead =>
        LET source == topology_source
            decoded == TheCall.returned[1]
            expected == AtomsInIndexOrder(source)
        IN  /\ TheCall.result = "ok"
            /\ Len(decoded.chains) = Len(source.chains)
            /\ DecodedResidueCount(decoded.chains, 1) = ResidueCount(source.chains, 1)
            /\ Len(decoded.atoms) = Len(expected)
            /\ \A j \in 1..Len(expected) : decoded.atoms[j].element = expected[j].element
            /\ Len(decoded.bonds) = Len(source.bonds)
            /\ \A j \in 1..Len(source.bonds) :
                  { expected[decoded.bonds[j][1] + 1].id,
                    expected[decoded.bonds[j][2] + 1].id }
                    = { source.bonds[j][1], source.bonds[j][2] }

\* the topology read back names, without an error, a bond between other atoms than
\* the stored topology
BondMisresolved ==
    /\ TopologyRead
    /\ TheCall.result = "ok"
    /\ ~C21_RoundTrip

\* the topology read back is the stored one in all that C21 names
RoundTripFaithful ==
    /\ TopologyRead
    /\ Len(topology_source.chains) = 2
    /\ C21_RoundTrip

\* the latest call handed the topology setter of a writable file an object that
\* lacks one of chains, residues, atoms, bonds
BrokenTopologySet ==
    /\ TheCall.op = "topology"
    /\ WritableBefore
    /\ TheCall.object.protocol # FullProtocol

\* C24: the topology setter refuses an object that lacks one of chains, residues,
\* atoms, bonds with AttributeError and changes nothing, the stored record included;
\* a topology get returns None on a file whose callers never set a topology, and
\* otherwise the topology the callers set last: its chains, residues and atoms, and
\* its bonds between the same atoms.
C24_TopologySetGet ==
    /\ BrokenTopologySet =>
          /\ TheCall.result = "AttributeError"
          /\ NothingMutated
          /\ topology_source = Before.topology_source
    /\ (TheCall.op = "get_topology" /\ "topology" \notin caller_set) =>
          TheCall.result = "None"
    /\ (TheCall.op = "get_topology" /\ "topology" \in caller_set) =>
          /\ TheCall.result = "ok"
          /\ LET decoded == TheCall.returned[1]
                  expected == AtomsInIndexOrder(topology_source)
              IN  /\ Len(decoded.chains) = Len(topology_source.chains)
                  /\ Len(decoded.atoms) = Len(expected)
                  /\ Len(decoded.bonds) = Len(topology_source.bonds)
                  /\ \A j \in 1..Len(topology_source.bonds) :
                        { expected[decoded.bonds[j][1] + 1].id,
                          expected[decoded.bonds[j][2] + 1].id }
                          = { topology_source.bonds[j][1], topology_source.bonds[j][2] }

\* the parts of C24 that do not read a topology back: the refusal of an object that
\* is no topology, None on a file without a record, and a record that is the
\* encoding of the topology set last
TopologyRecordKept ==
    /\ BrokenTopologySet =>
          /\ TheCall.result = "AttributeError"
          /\ NothingMutated
    /\ (TheCall.op = "get_topology" /\ "topology" \notin caller_set) =>
          TheCall.result = "None"
    /\ "topology" \in caller_set => topology = <<EncodeTopology(topology_source)>>

\* an object that is no topology was refused on a file that holds a record
BrokenTopologyRefused ==
    /\ BrokenTopologySet
    /\ TheCall.result = "AttributeError"
    /\ Before.topology # NoRecord
    /\ topology = Before.topology

\* every array holds as many rows as the file counts for it
ContentsMatchNodes ==
    \A f \in FieldNames : Len(contents[f]) = (IF nodes[f] = Absent THEN 0 ELSE nodes[f])

\* the latest call is a read, on a read-mode file that holds frames, whose
\* atom_indices names an atom below 0 or not below the atom count
BadSubsetRead ==
    /\ TheCall.op = "read"
    /\ Before.mode = "r"
    /\ Before.nodes["coordinates"] # Absent
    /\ TheCall.atom_indices # <<>>
    /\ \E j \in 1..Len(TheCall.atom_indices[1]) :
          \/ TheCall.atom_indices[1][j] < 0
          \/ TheCall.atom_indices[1][j] >= Before.n_atoms

\* C22: wherever the cursor stands, the end of the file included, a read whose
\* atom_indices names an atom below 0 or not below the atom count raises the
\* index-range error (ValueError) and leaves the cursor where it was.
C22_BadSubsetRaises ==
    BadSubsetRead => (TheCall.result = "ValueError" /\ frame_index = Before.frame_index)

\* the same for reads whose window holds frames
BadSubsetRaisesInWindow ==
    (BadSubsetRead /\ Before.frame_index < NFrames(Before.nodes)) =>
        (TheCall.result = "ValueError" /\ NothingMutated)

\* such a read was refused with the cursor inside the file
BadSubsetRefused ==
    /\ BadSubsetRead
    /\ TheCall.result = "ValueError"

\* the latest call is a write on an Initialized file that failed for a field the
\* file lacks or the caller left out
WriteFailedAtField ==
    /\ TheCall.op = "write"
    /\ WritableBefore
    /\ ~Before.needs_initialization
    /\ TheCall.result \in {"MissingFieldError", "UnknownFieldError"}

\* the places, in the fixed order, of the fields that are supplied but not in the
\* file or in the file but not supplied
DifferingPlaces ==
    {i \in 1..Len(Names) :
        (Names[i] \in TheCall.supplied) # (Before.nodes[Names[i]] # Absent)}

\* the supplied fields that precede the first such field
SuppliedBeforeFailure ==
    LET f == CHOOSE i \in DifferingPlaces : \A j \in DifferingPlaces : i <= j
    IN  {Names[i] : i \in 1..(f - 1)} \cap TheCall.supplied

\* C23: a write on an Initialized file that fails with MissingFieldError or
\* UnknownFieldError at field f has appended the batch to exactly the supplied fields
\* before f in the order coordinates, time, cell_angles, cell_lengths, velocities,
\* kineticEnergy, potentialEnergy, temperature, lambda, to no field at or after f,
\* has left the cursor where it was and has not flushed.
C23_PartialAppendOnFailure ==
    WriteFailedAtField =>
        /\ DifferingPlaces # {}
        /\ TheCall.appended = SuppliedBeforeFailure
        /\ \A g \in FieldNames :
              IF g \in SuppliedBeforeFailure
              THEN /\ nodes[g] = Before.nodes[g] + TheCall.k
                   /\ contents[g] = Before.contents[g] \o [j \in 1..TheCall.k |-> TheCall.data]
              ELSE /\ nodes[g] = Before.nodes[g]
                   /\ contents[g] = Before.contents[g]
        /\ frame_index = Before.frame_index
        /\ \A i \in 1..Len(TheCall.store_ops) : TheCall.store_ops[i] # "flush"

\* C23 witness: a write failed at a field after time, with coordinates and time
\* appended
C23_Witness ==
    /\ WriteFailedAtField
    /\ TheCall.appended = {"coordinates", "time"}
    /\ nodes["time"] = Before.nodes["time"] + TheCall.k
    /\ frame_index = Before.frame_index

\* the latest call is a write, on a file whose atom count is fixed, of coordinates
\* with another atom count
OtherAtomCountWritten ==
    /\ TheCall.op = "write"
    /\ WritableBefore
    /\ ~Before.needs_initialization
    /\ Before.nodes["coordinates"] # Absent
    /\ TheCall.atoms # Before.n_atoms

\* C26: once the first write has fixed the atom count, a write of coordinates with
\* another atom count is rejected (by the pairing check or by the append of the
\* coordinates) and changes no array and not the cursor.
C26_AtomCountFixed ==
    OtherAtomCountWritten =>
        /\ TheCall.result \in {"PairedFieldError", "ShapeError"}
        /\ TheCall.appended = {}
        /\ NothingMutated

\* C26 witness: coordinates of two atoms, with time, were refused by a file of one
\* atom that holds coordinates and time
C26_Witness ==
    /\ OtherAtomCountWritten
    /\ TheCall.result = "ShapeError"
    /\ Before.n_atoms = 1
    /\ TheCall.atoms = 2
    /\ TheCall.supplied = {"coordinates", "time"}
    /\ Before.nodes["time"] # Absent

\* C25: __init__ in append mode on a file without a /coordinates array succeeds with
\* the cursor at 0 and the state Initialized, and every write on the object it
\* returns fails with UnknownFieldError and creates no array.
C25_AppendWithoutCoordinates ==
    /\ ( /\ TheCall.op = "open"
          /\ TheCall.value = "a"
          /\ Before.nodes["coordinates"] = Absent ) =>
            /\ TheCall.result = "ok"
            /\ is_open
            /\ frame_index = 0
            /\ ~needs_initialization
    /\ ( /\ TheCall.op = "write"
          /\ Before.mode = "a"
          /\ Before.nodes["coordinates"] = Absent ) =>
            /\ TheCall.result \in {"PairedFieldError", "UnknownFieldError"}
            /\ ~TheCall.ran_initializer
            /\ nodes = Before.nodes

\* C27: the write that runs the schema initializer leaves title, forcefield,
\* reference and randomState at the value the caller set before it.
C27_CallerScalarsKept ==
    TheCall.ran_initializer =>
        \A a \in {"title", "forcefield", "reference", "randomState"} :
            a \in Before.caller_set => GetAttr(a) = Before.attrs[a]

\* the same for forcefield, reference and randomState, which the initializer does
\* not stamp
UnstampedScalarsKept ==
    TheCall.ran_initializer =>
        \A a \in {"forcefield", "reference", "randomState"} :
            a \in Before.caller_set => GetAttr(a) = Before.attrs[a]

\* the latest call is a read that returned frames
FramesRead == TheCall.op = "read" /\ TheCall.result = "frames"

\* the step of the latest read
ReadStride == IF TheCall.stride = <<>> THEN 1 ELSE TheCall.stride[1]

\* the positions cursor, cursor + s, cursor + 2s, ... below the end of the window
WindowPositions ==
    LET n == IF WindowStop > WindowStart
             THEN (WindowStop - WindowStart + ReadStride - 1) \div ReadStride
             ELSE 0
    IN  [j \in 1..n |-> WindowStart + (j - 1) * ReadStride]

\* the read returned for that field exactly the frames at the window positions
ReturnsWindow(f) ==
    /\ TheCall.frames[f] # <<>>
    /\ Len(TheCall.frames[f][1]) = Len(WindowPositions)
    /\ \A j \in 1..Len(WindowPositions) :
          TheCall.frames[f][1][j] = Before.contents[f][WindowPositions[j] + 1]

\* C28: a read that returns frames returns, for every array of the file, exactly the
\* frames at the positions cursor, cursor + s, cursor + 2s, ... below
\* min(cursor + n_frames, total frames), in that order, and None for every field the
\* file has no array for.
C28_StridedWindow ==
    FramesRead =>
        \A f \in FieldNames :
            IF Before.nodes[f] # Absent THEN ReturnsWindow(f)
            ELSE TheCall.frames[f] = <<>>

\* the same on files all of whose arrays hold as many frames as /coordinates
StridedWindowUnlessRagged ==
    (\A f \in Schema(Before.nodes) : Before.nodes[f] = Before.nodes["coordinates"]) =>
        C28_StridedWindow

\* a read with stride 2 returned the first of two frames that differ
StridedRead ==
    /\ FramesRead
    /\ TheCall.stride = <<2>>
    /\ Before.contents["coordinates"] = <<"x", "y">>
    /\ Before.frame_index = 0
    /\ TheCall.frames["coordinates"] = <<<<"x">>>>
    /\ TheCall.frames["time"] = <<>>
====
